---- MODULE Spec2Model ----
(***************************************************************************)
(* Email_Scraper: the two programs of the repository as one state machine. *)
(*   prog = "tiered" : src/scraper.py (Pass 1, Pass 2 deep retry, merge)    *)
(*   prog = "fast"   : src/.github/workflows/scraper.py (single pass)       *)
(* Strings are sequences of tokens; a set whose iteration order the code    *)
(* relies on is iterated in any order.                                      *)
(***************************************************************************)
EXTENDS Integers, Sequences, FiniteSets, TLC

\* ------------------------------------------------------------------ bounds
MaxLines == 2

\* ------------------------------------------------------- program constants
MAX_RETRIES == 2
\* The connector limits (limit: 30 in src/scraper.py, 10 in the workflow
\* program; limit_per_host: 3) are taken as 1, so that the two tasks of a
\* run can reach them.
CONCURRENCY_LIMIT == 1
LIMIT_PER_HOST == 1
TIERED_PAGE_CAP == 10
FAST_PAGE_CAP == 5

Progs == {"tiered", "fast"}

\* ----------------------------------------------------------------- strings
\* Code-point order of the tokens that can occur in a cleaned address.
TokRank(t) ==
  CASE t = "." -> 1
    [] t = "@" -> 2
    [] t = "com" -> 3
    [] t = "info" -> 4
    [] t = "sales" -> 5
    [] t = "shop" -> 6
    [] OTHER -> 0

RECURSIVE StrLess(_, _)
\* Python's str < str, on token sequences.
StrLess(s, t) ==
  IF t = << >> THEN FALSE
  ELSE IF s = << >> THEN TRUE
  ELSE IF Head(s) = Head(t) THEN StrLess(Tail(s), Tail(t))
  ELSE TokRank(Head(s)) < TokRank(Head(t))

\* str.lower() on one token.
LowerTok(t) ==
  CASE t = "Info" -> "info"
    [] t = "Sales" -> "sales"
    [] t = "I" -> "i"
    [] t = "S" -> "s"
    [] OTHER -> t

\* s[0] of a non-empty string: the first character of its first token.
FirstChar(s) ==
  CASE Head(s) = "info" -> <<"i">>
    [] Head(s) = "Info" -> <<"I">>
    [] Head(s) = "sales" -> <<"s">>
    [] Head(s) = "Sales" -> <<"S">>
    [] OTHER -> <<Head(s)>>

\* urllib.parse.unquote on one token.
UnquoteTok(t) == IF t = "%40" THEN "@" ELSE t

RECURSIVE lower(_)
\* str.lower()
lower(s) == IF s = << >> THEN << >> ELSE <<LowerTok(Head(s))>> \o lower(Tail(s))

RECURSIVE unquote(_)
\* urllib.parse.unquote
unquote(s) == IF s = << >> THEN << >> ELSE <<UnquoteTok(Head(s))>> \o unquote(Tail(s))

RECURSIVE TieredReplace(_)
\* The chain of str.replace calls of cleanup_email in src/scraper.py; a
\* blank is replaced by the empty string.
TieredReplace(s) ==
  IF s = << >> THEN << >>
  ELSE (CASE Head(s) \in {"[at]", "(at)", " at ", "&#64;"} -> <<"@">>
          [] Head(s) \in {"[dot]", "(dot)", " dot ", "&#46;"} -> <<".">>
          [] Head(s) = " " -> << >>
          [] OTHER -> <<Head(s)>>) \o TieredReplace(Tail(s))

RECURSIVE FastReplace(_)
\* The replacements dict of cleanup_email in the workflow program.
FastReplace(s) ==
  IF s = << >> THEN << >>
  ELSE (CASE Head(s) \in {"[at]", "(at)", " at "} -> <<"@">>
          [] Head(s) \in {"[dot]", "(dot)", " dot "} -> <<".">>
          [] OTHER -> <<Head(s)>>) \o FastReplace(Tail(s))

RECURSIVE Strip(_)
\* str.strip(): blanks at both ends go, inner blanks stay.
Strip(s) ==
  IF s = << >> THEN s
  ELSE IF Head(s) = " " THEN Strip(Tail(s))
  ELSE IF s[Len(s)] = " " THEN Strip(SubSeq(s, 1, Len(s) - 1))
  ELSE s

cleanup_email(p, email) ==
  IF p = "tiered" THEN TieredReplace(lower(unquote(email)))
  ELSE Strip(FastReplace(unquote(lower(email))))

\* email_validator.validate_email(e, check_deliverability=False): one "@",
\* a local part and a domain that are dot-separated non-empty atoms, at
\* least two domain labels, no blank or leftover obfuscation token.
AtomToks == {"info", "sales", "shop", "com"}
Atoms(s) ==
  /\ s # << >>
  /\ \A i \in 1..Len(s) :
       IF i % 2 = 1 THEN s[i] \in AtomToks ELSE s[i] = "."
  /\ Len(s) % 2 = 1

validate_email(e) ==
  \E i \in 1..Len(e) :
    /\ e[i] = "@"
    /\ Atoms(SubSeq(e, 1, i - 1))
    /\ Atoms(SubSeq(e, i + 1, Len(e)))
    /\ Len(e) - i >= 3

\* EMAIL_PATTERN.findall on one snippet of page text. The pattern of
\* src/scraper.py is compiled with re.VERBOSE, so the blanks around "at"
\* and "dot" are not part of it; a match may end before the snippet does.
LocalToks == AtomToks \cup {"Info", "Sales", ".", "%40"}
WordToks == AtomToks \cup {"Info", "Sales"}
TieredAtToks == {"@", "[at]", "(at)", "at"}
TieredDotToks == {".", "[dot]", "(dot)", "dot"}

TieredMatch(s) ==
  \E i \in 2..Len(s) :
    /\ s[i] \in TieredAtToks
    /\ \A j \in 1..(i - 1) : s[j] \in LocalToks
    /\ Len(s) >= i + 3
    /\ s[i + 1] \in WordToks
    /\ s[i + 2] \in TieredDotToks
    /\ s[i + 3] \in WordToks

\* The pattern of the workflow program; the snippet is found whole or not
\* at all.
FastMatch(s) ==
  \E i \in 2..Len(s) :
    /\ s[i] = "@"
    /\ \A j \in 1..(i - 1) : s[j] \in LocalToks
    /\ Len(s) >= i + 3
    /\ \A j \in (i + 1)..Len(s) : s[j] \in WordToks \cup {"."}
    /\ s[Len(s) - 1] = "."
    /\ s[Len(s)] \in WordToks

EMAIL_PATTERN(p, s) == IF p = "tiered" THEN TieredMatch(s) ELSE FastMatch(s)

RECURSIVE SplitFirst(_, _)
\* s.split(sep)[0]
SplitFirst(s, sep) ==
  IF s = << >> \/ Head(s) = sep THEN << >>
  ELSE <<Head(s)>> \o SplitFirst(Tail(s), sep)

IsMailto(href) == href # << >> /\ LowerTok(Head(href)) = "mailto:"

\* The address part of a mailto href, as each program cuts it out.
MailtoPart(p, href) ==
  IF p = "tiered"
  THEN unquote(Strip(SplitFirst(SplitFirst(Tail(href), "?"), "#")))
  ELSE unquote(Strip(SplitFirst(lower(Tail(href)), "?")))

\* A page body: snippets of visible text and the hrefs of its anchors
\* (region "footer" stands for footer, aside and nav).
NoPage == [text |-> {}, anchors |-> {}]

\* The raw candidates one page yields, before normalisation. In
\* src/scraper.py findall returns strings (the pattern has no group), and
\* match[0] is the first character of each.
RawCandidates(p, page) ==
  LET matches == {s \in page.text : EMAIL_PATTERN(p, s)}
      emails_text == IF p = "tiered" THEN {FirstChar(m) : m \in matches} ELSE matches
      emails_mailto == {MailtoPart(p, a.href) : a \in {b \in page.anchors : IsMailto(b.href)}}
  IN emails_text \cup emails_mailto

\* fetch_emails / extract_emails_from_html after the body is there: the
\* tiered program returns every cleaned candidate, the workflow program
\* only the validated ones.
ExtractEmails(p, page) ==
  LET cleaned == {cleanup_email(p, e) : e \in RawCandidates(p, page)}
  IN IF p = "tiered" THEN cleaned ELSE {e \in cleaned : validate_email(e)}

\* ', '.join(list) and its inverse, on token strings.
RECURSIVE Join(_)
Join(l) ==
  IF l = << >> THEN << >>
  ELSE IF Len(l) = 1 THEN l[1]
  ELSE l[1] \o <<", ">> \o Join(Tail(l))

RECURSIVE SplitAll(_, _)
SplitAll(s, sep) ==
  IF \E i \in 1..Len(s) : s[i] = sep
  THEN <<SplitFirst(s, sep)>> \o SplitAll(SubSeq(s, Len(SplitFirst(s, sep)) + 2, Len(s)), sep)
  ELSE <<s>>

NOT_FOUND == <<"Not found">>

\* Every order in which a set can be iterated.
Orders(S) ==
  {o \in [1..Cardinality(S) -> S] : \A i, j \in 1..Cardinality(S) : i # j => o[i] # o[j]}

RECURSIVE Insert(_, _)
\* Insert an address into a sorted list of addresses.
Insert(e, l) ==
  IF l = << >> THEN <<e>>
  ELSE IF StrLess(e, Head(l)) THEN <<e>> \o l
  ELSE <<Head(l)>> \o Insert(e, Tail(l))

RECURSIVE sorted(_)
\* sorted(list of str)
sorted(l) == IF l = << >> THEN << >> ELSE Insert(Head(l), sorted(Tail(l)))

\* -------------------------------------------------------------------- web
NoUrl == [proto |-> "", host |-> "", path |-> ""]
Url(proto, host, path) == [proto |-> proto, host |-> host, path |-> path]

\* f"{protocol}://{domain}"
BaseUrl(proto, domain) == Url(proto, domain, "")

Protocols == <<"https", "http">>

Anchor(href, region) == [href |-> href, region |-> region]

\* What the sites serve to a plain GET: the same under https and http.
Static(url) ==
  CASE url.host = "shop" /\ url.path = "" ->
         [text |-> {},
          anchors |-> {Anchor(<<"/contact">>, "body"), Anchor(<<"/about">>, "footer"),
                       Anchor(<<"/blog">>, "body")}]
    [] url.host = "shop" /\ url.path = "/contact" ->
         [text |-> {<<"info", "@", "shop", ".", "com">>},
          anchors |-> {Anchor(<<"mailto:", "Sales", "%40", "shop", ".", "com", "?", "subject">>, "body"),
                       Anchor(<<"mailto:", "info", "[at]", "shop", "[dot]", "com">>, "body")}]
    [] url.host = "shop" /\ url.path = "/about" ->
         [text |-> {<<".", "info", "@", "shop", ".", "com">>}, anchors |-> {}]
    [] url.host = "blog" /\ url.path = "" ->
         [text |-> {<<"sales", "@", "shop", ".", "com">>}, anchors |-> {}]
    [] url.host = "mix" /\ url.path = "" ->
         [text |-> {}, anchors |-> {Anchor(<<"http://", "mix", "/contact">>, "body")}]
    [] url.host = "mix" /\ url.path = "/contact" ->
         [text |-> {}, anchors |-> {Anchor(<<"mailto:", "info", "@", "shop", ".", "com">>, "body")}]
    [] url.host = "odd" /\ url.path = "" ->
         [text |-> {<<"info", "@", "shop", ".", "com">>},
          anchors |-> {Anchor(<<"http://[", "/contact">>, "footer")}]
    [] OTHER -> NoPage

\* What a headless browser renders: "js" builds its mailto link by script.
Rendered(url) ==
  IF url.host = "js" /\ url.path = ""
  THEN [text |-> {}, anchors |-> {Anchor(<<"mailto:", "info", "@", "shop", ".", "com">>, "body")}]
  ELSE Static(url)

Keywords == {"/contact", "/about"}
\* any(k in href for k in keywords), on the lower-cased href.
HasKeyword(href) == \E i \in 1..Len(href) : LowerTok(href[i]) \in Keywords

\* urljoin raises ValueError ("Invalid IPv6 URL") on an href whose host part
\* opens a bracket that is never closed.
UrljoinRaises(href) == href # << >> /\ Head(href) = "http://["

\* urljoin(base_url, href): a path replaces the base's path, an absolute
\* href (scheme, host, path) or a mailto: href stands on its own.
urljoin(base, href) ==
  IF IsMailto(href) THEN Url("mailto", "", Head(Tail(href)))
  ELSE IF Head(href) \in {"http://", "https://"}
  THEN Url(IF Head(href) = "http://" THEN "http" ELSE "https", href[2], href[3])
  ELSE Url(base.proto, base.host, Head(href))

\* The set relevant_links of discover_relevant_pages (status 200).
relevant_links(base_url, page) ==
  {urljoin(base_url, a.href) : a \in {b \in page.anchors : b.region = "footer"}}
    \cup {urljoin(base_url, a.href) : a \in {b \in page.anchors : HasKeyword(b.href)}}

\* The set links of get_relevant_pages (html fetched).
links(base_url, page) ==
  {urljoin(base_url, a.href) : a \in {b \in page.anchors : HasKeyword(b.href)}}
    \cup {base_url}

Min(a, b) == IF a < b THEN a ELSE b

\* list(s)[:cap], for every iteration order of the set s.
ListCut(S, cap) == {SubSeq(o, 1, Min(cap, Len(o))) : o \in Orders(S)}

\* ------------------------------------------------------------------ state
VARIABLES
  prog,           \* which of the two programs runs
  net,            \* how the network answers (see Nets)
  prev,           \* the output file an earlier run on the same input left
  lines,          \* the lines of DOMAINS_FILE
  pc,             \* where main() is
  domains,        \* main: the list of (line_no, domain)
  tasks,          \* the check_domain coroutines, by <<phase, position>>
  doneq,          \* as_completed: finished tasks not yet awaited, oldest first
  results,        \* main: results_pass1 (tiered), results (fast)
  file,           \* the rows of OUTPUT_FILE, the header first
  to_retry,       \* main: to_retry
  final_results,  \* main: the values of final_results, in insertion order
  mi,             \* main: position of the merge loop in to_retry
  pending,        \* as_completed: coroutines not yet awaited by main
  deepCalls       \* history: check_domain(deep=True) calls per line number

vars == <<prog, net, prev, lines, pc, domains, tasks, doneq, results, file, to_retry,
          final_results, mi, pending, deepCalls>>

\* The network: "flaky" lets every request succeed or fail; the others
\* answer every URL the same way each time ("up": every GET is a 200 and
\* every browser load works; "get_down": every plain GET fails, browser
\* loads work).
Nets == {"flaky", "up", "get_down"}
SteadyNets == Nets \ {"flaky"}
GetAnswers(n) == n \in {"flaky", "up"}
GetFails(n) == n \in {"flaky", "get_down"}
BrowserAnswers(n) == n \in {"flaky", "up", "get_down"}
BrowserFails(n) == n = "flaky"

\* ----------------------------------------------------------- check_domain
NoResult == [line_number |-> 0, domain |-> "", emails |-> << >>, target_website |-> NoUrl]

Result(ln, domain, emails, target) ==
  [line_number |-> ln, domain |-> domain, emails |-> emails, target_website |-> target]

\* The locals of one check_domain call. fl is where its pending await
\* stands:
\*   "queued"   not in flight: created and not yet run, asleep before a
\*              request, or waiting for a connection of the connector
\*   "get"      a Tier 1 GET holds a connection
\*   "browser"  a Tier 2 headless browser is open
\*   "none"     no request pending
\* The last fields are history:
\*   late      a request went out while a validated address was already held
\*   producer  the page whose fetch first produced a validated address
\*   seen      the first fetched body that contains a valid address
\*   t1        how the Tier 1 GET of the pending fetch attempt ended
\*   calls     fetch attempts begun on each candidate page of this protocol
Task(st, domain, ln, deep) ==
  [st |-> st, domain |-> domain, line_number |-> ln, deep |-> deep,
   emails |-> {}, target_website |-> NoUrl, pi |-> 1,
   base_url |-> NoUrl, pages |-> << >>, r |-> 0, k |-> 1, fl |-> "none",
   result |-> NoResult, late |-> FALSE, producer |-> NoUrl, seen |-> NoUrl,
   t1 |-> "none", calls |-> << >>]

\* The coroutine object of one call: a blank domain returns at once, any
\* other call begins with the page discovery of the https base URL.
check_domain(p, domain, ln, deep) ==
  IF domain = ""
  THEN [Task("done", domain, ln, deep) EXCEPT
          !.result = Result(ln, "", NOT_FOUND, NoUrl)]
  ELSE [Task("discover", domain, ln, deep) EXCEPT
          !.base_url = BaseUrl(Protocols[1], domain), !.fl = "queued"]

\* The hrefs the discovery of each program passes to urljoin.
Joined(p, page) ==
  {a.href : a \in {b \in page.anchors :
                      HasKeyword(b.href) \/ (p = "tiered" /\ b.region = "footer")}}

\* get_relevant_pages has no try around urljoin: its ValueError leaves
\* check_domain. (discover_relevant_pages catches it and returns [].)
DiscoverRaises(p, n, base_url) ==
  /\ p = "fast"
  /\ GetAnswers(n)
  /\ \E href \in Joined(p, Static(base_url)) : UrljoinRaises(href)

\* discover_relevant_pages / get_relevant_pages: the lists it can return,
\* whether the GET of base_url succeeds or not.
DiscoverOutcomes(p, n, base_url) ==
  (IF GetFails(n)
   THEN {IF p = "tiered" THEN << >> ELSE <<base_url>>}
   ELSE {})
  \cup
  (IF GetAnswers(n)
   THEN IF \E href \in Joined(p, Static(base_url)) : UrljoinRaises(href)
        THEN (IF p = "tiered" THEN {<< >>} ELSE {})
        ELSE IF p = "tiered"
             THEN ListCut(relevant_links(base_url, Static(base_url)), TIERED_PAGE_CAP)
             ELSE ListCut(links(base_url, Static(base_url)), FAST_PAGE_CAP)
   ELSE {})

\* fetch_emails / fetch_page + extract_emails_from_html on one URL: every
\* outcome, as the fetched body (NoPage: none) and the tiers that ran.
Fetched(body, t1, t2) == [body |-> body, t1 |-> t1, t2 |-> t2]

\* fetch_emails_playwright: the rendered page, or [] after an error.
Tier2Outcomes(n, url, t1) ==
  (IF BrowserAnswers(n) THEN {Fetched(Rendered(url), t1, "ok")} ELSE {})
    \cup (IF BrowserFails(n) THEN {Fetched(NoPage, t1, "fail")} ELSE {})

\* session.get + response.text(): the body of a 200, or a soft failure
\* (non-200 status, transport error, timeout, decode error).
GetOutcomes(n, url) ==
  (IF GetAnswers(n) THEN {Fetched(Static(url), "ok", "none")} ELSE {})
    \cup (IF GetFails(n) THEN {Fetched(NoPage, "fail", "none")} ELSE {})

\* Tier 2 also after a 200 whose body yields no address.
Fallback_NoEmails(p, o) ==
  p = "tiered" /\ (o.t1 = "fail" \/ ExtractEmails(p, o.body) = {})

\* fetch_emails: the except branch hands the page to the headless browser.
Fallback(p, o) == p = "tiered" /\ o.t1 = "fail"

HasValid(emails) == \E e \in emails : validate_email(e)

\* The syntactically valid addresses a page body holds, in its text or in
\* a mailto link (history only: what was there to be found).
PageAddresses(body) ==
  {e \in {cleanup_email("tiered", s) :
            s \in body.text
                  \cup {MailtoPart("tiered", a.href) : a \in {b \in body.anchors : IsMailto(b.href)}}} :
     validate_email(e)}

\* Leave the loops: next page, next retry round, next protocol or the end.
NextProtocol(t) ==
  IF t.pi < Len(Protocols)
  THEN [t EXCEPT !.st = "discover", !.pi = @ + 1,
                 !.base_url = BaseUrl(Protocols[t.pi + 1], t.domain),
                 !.pages = << >>, !.r = 0, !.k = 1, !.calls = << >>]
  ELSE [t EXCEPT !.st = "validate", !.pages = << >>, !.r = 0, !.k = 1, !.calls = << >>]

\* One round over the pages and no more.
TieredAdvance_NoRetry(t) ==
  IF t.k < Len(t.pages) THEN [t EXCEPT !.k = @ + 1] ELSE NextProtocol(t)

\* src/scraper.py: rounds outside, pages inside.
TieredAdvance(t) ==
  IF t.k < Len(t.pages) THEN [t EXCEPT !.k = @ + 1]
  ELSE IF t.r < MAX_RETRIES THEN [t EXCEPT !.r = @ + 1, !.k = 1]
  ELSE NextProtocol(t)

\* workflow program: pages outside, attempts inside.
FastAdvance(t) ==
  IF t.r < MAX_RETRIES THEN [t EXCEPT !.r = @ + 1]
  ELSE IF t.k < Len(t.pages) THEN [t EXCEPT !.k = @ + 1, !.r = 0]
  ELSE NextProtocol(t)

\* The addresses are kept but the loops go on.
Found_NoBreak(t, new_emails, page) ==
  [TieredAdvance(t) EXCEPT !.emails = t.emails \cup new_emails, !.target_website = page]

\* The break chain once new_emails is non-empty.
Found(t, new_emails, page) ==
  [t EXCEPT !.emails = @ \cup new_emails, !.target_website = page,
            !.st = "validate", !.pages = << >>, !.r = 0, !.k = 1, !.calls = << >>]

AfterFetch(p, t, new_emails, page) ==
  IF new_emails # {} THEN Found(t, new_emails, page)
  ELSE IF p = "tiered" THEN TieredAdvance(t) ELSE FastAdvance(t)

\* The await of the page discovery returns.
DiscoverStep(p, t, found_pages) ==
  LET relevant_pages == IF found_pages = << >> THEN <<t.base_url>> ELSE found_pages
  IN [t EXCEPT !.st = "fetch", !.r = 0, !.k = 1,
               !.pages = relevant_pages,
               !.calls = [i \in 1..Len(relevant_pages) |-> 0],
               !.late = @ \/ HasValid(t.emails)]

\* The ValueError of urljoin leaves the coroutine.
RaiseStep(t) ==
  [t EXCEPT !.st = "raised", !.fl = "none", !.emails = {}, !.target_website = NoUrl,
            !.pi = 1, !.base_url = NoUrl]

\* The await of one page fetch returns.
FetchStep(p, t, o) ==
  LET page == t.pages[t.k]
      new_emails == ExtractEmails(p, o.body)
      u == AfterFetch(p, t, new_emails, page)
  IN [u EXCEPT !.late = @ \/ HasValid(t.emails),
               !.producer = IF @ = NoUrl /\ HasValid(new_emails) THEN page ELSE @,
               !.seen = IF @ = NoUrl /\ PageAddresses(o.body) # {} THEN page ELSE @]

\* The results the tail of check_domain can build (one per iteration order
\* of the set of addresses).
TaskResults(p, t) ==
  IF p = "tiered"
  THEN {Result(t.line_number, t.domain,
               IF o = << >> THEN NOT_FOUND ELSE Join(o),
               IF t.emails # {}
               THEN (IF t.target_website # NoUrl THEN t.target_website ELSE t.base_url)
               ELSE NoUrl) :
          o \in Orders({e \in t.emails : validate_email(e)})}
  ELSE {Result(t.line_number, t.domain,
               IF t.emails # {} THEN Join(sorted(o)) ELSE NOT_FOUND,
               IF t.target_website # NoUrl THEN t.target_website
               ELSE IF t.emails # {} THEN BaseUrl("https", t.domain) ELSE NoUrl) :
          o \in Orders(t.emails)}

ReturnStep(t, res) ==
  [t EXCEPT !.st = "done", !.result = res, !.emails = {}, !.target_website = NoUrl,
            !.pi = 1, !.base_url = NoUrl]

\* The URL of the request a suspended call is about to make or is making.
Target(t) == IF t.st = "discover" THEN t.base_url ELSE t.pages[t.k]

InFlight(t) == t.fl \in {"get", "browser"}

\* TCPConnector: a new connection is granted while fewer than limit are in
\* use and, in the workflow program, fewer than limit_per_host to the same
\* (host, scheme).
Room(p, ts, id, url) ==
  /\ Cardinality({j \in DOMAIN ts \ {id} : ts[j].fl = "get"}) < CONCURRENCY_LIMIT
  /\ p = "fast" =>
       Cardinality({j \in DOMAIN ts \ {id} :
                      /\ ts[j].fl = "get"
                      /\ Target(ts[j]).host = url.host
                      /\ Target(ts[j]).proto = url.proto}) < LIMIT_PER_HOST

\* The call runs on to its next await: a discovery or a normal fetch asks
\* the connector for a connection, a deep fetch opens a browser, the
\* workflow program sleeps first.
Suspend(p, t, room) ==
  IF t.st = "discover"
  THEN [t EXCEPT !.fl = IF room THEN "get" ELSE "queued", !.t1 = "none"]
  ELSE IF t.st = "fetch"
  THEN [t EXCEPT !.fl = IF p = "tiered" /\ t.deep THEN "browser"
                        ELSE IF p = "tiered" /\ room THEN "get"
                        ELSE "queued",
                 !.t1 = "none",
                 !.calls[t.k] = @ + 1]
  ELSE [t EXCEPT !.fl = "none", !.t1 = "none"]

\* ------------------------------------------------------------------- main
Schemes == {"http://", "https://"}

\* The forms of an input line: blank, a hostname, a hostname with a
\* scheme, a scheme and nothing else.
LineKinds ==
  {<< >>, <<"shop">>, <<"https://", "blog">>, <<"js">>, <<"odd">>, <<"mix">>, <<"http://">>}

RECURSIVE Remove(_, _)
\* s.replace(t, '') for the tokens t of a set.
Remove(s, T) ==
  IF s = << >> THEN << >>
  ELSE IF Head(s) \in T THEN Remove(Tail(s), T)
  ELSE <<Head(s)>> \o Remove(Tail(s), T)

\* line.strip().replace('http://', '').replace('https://', '').split()
Words(line) == Strip(Remove(Strip(line), Schemes))

NonBlank(line) == Strip(line) # << >>

RECURSIVE LoadFrom(_, _, _)
\* The list comprehension of main over the lines from position i on;
\* n is the number of entries made so far (the workflow program numbers
\* the non-blank lines, src/scraper.py all lines).
LoadFrom(p, i, n) ==
  IF i > Len(lines) THEN << >>
  ELSE IF NonBlank(lines[i])
       THEN <<(<<IF p = "tiered" THEN i ELSE n + 1, Head(Words(lines[i]))>>)>>
              \o LoadFrom(p, i + 1, n + 1)
       ELSE LoadFrom(p, i + 1, n)

\* split()[0] raises IndexError on a line that is a scheme and nothing else.
LoadRaises == \E i \in 1..Len(lines) : NonBlank(lines[i]) /\ Words(lines[i]) = << >>

\* A row of the file; idx is not in the file, it remembers which result
\* the row was written from.
Row(r) == [domain |-> r.domain, emails |-> r.emails,
           target_website |-> r.target_website, idx |-> r.line_number]

NoFile == [header |-> FALSE, rows |-> << >>]

RECURSIVE MapRows(_)
MapRows(rs) == IF rs = << >> THEN << >> ELSE <<Row(Head(rs))>> \o MapRows(Tail(rs))

RECURSIVE InsertByLine(_, _)
InsertByLine(r, l) ==
  IF l = << >> THEN <<r>>
  ELSE IF r.line_number < Head(l).line_number THEN <<r>> \o l
  ELSE <<Head(l)>> \o InsertByLine(r, Tail(l))

\* The results left in completion order.
SortByLine_Unsorted(rs) == rs

RECURSIVE SortByLine(_)
\* sorted(rs, key=lambda x: x['line_number']), stable.
SortByLine(rs) ==
  IF rs = << >> THEN << >>
  ELSE InsertByLine(rs[Len(rs)], SortByLine(SubSeq(rs, 1, Len(rs) - 1)))

\* A list append where the dict assignment should be.
DictPut_Append(d, r) == Append(d, r)

\* d[key] = r on a dict kept as its values in insertion order.
DictPut(d, r) ==
  IF \E i \in 1..Len(d) : d[i].line_number = r.line_number
  THEN [i \in 1..Len(d) |-> IF d[i].line_number = r.line_number THEN r ELSE d[i]]
  ELSE Append(d, r)

RECURSIVE DictFrom(_)
\* {r['line_number']: r for r in rs}
DictFrom(rs) ==
  IF rs = << >> THEN << >>
  ELSE DictPut(DictFrom(SubSeq(rs, 1, Len(rs) - 1)), rs[Len(rs)])

IsNotFound(r) == r.emails = NOT_FOUND

\* Every Pass 1 result is retried.
NotFoundOf_All(rs) == rs

RECURSIVE NotFoundOf(_)
\* [r for r in rs if r['emails'] == 'Not found']
NotFoundOf(rs) ==
  IF rs = << >> THEN << >>
  ELSE (IF IsNotFound(Head(rs)) THEN <<Head(rs)>> ELSE << >>) \o NotFoundOf(Tail(rs))

\* The deep result is stored whether or not it has emails.
MergeResult_Always(final, deep_result) == DictPut(final, deep_result)

\* if deep_result['emails'] != 'Not found': final_results[...] = deep_result
MergeResult(final, deep_result) ==
  IF deep_result.emails # NOT_FOUND THEN DictPut(final, deep_result) ELSE final

\* [check_domain(...) for ... in l]: the coroutines of one phase.
Spawn(p, phase, l, deep) ==
  [id \in {<<phase, k>> : k \in 1..Len(l)} |->
     check_domain(p, l[id[2]][2], l[id[2]][1], deep)]

\* Tasks that returned before their first await are complete at once.
RECURSIVE BornDone(_, _, _)
BornDone(ts, phase, k) ==
  IF <<phase, k>> \notin DOMAIN ts THEN << >>
  ELSE (IF ts[<<phase, k>>].st = "done" THEN <<(<<phase, k>>)>> ELSE << >>)
         \o BornDone(ts, phase, k + 1)

RECURSIVE Pairs(_)
Pairs(rs) ==
  IF rs = << >> THEN << >>
  ELSE <<(<<Head(rs).line_number, Head(rs).domain>>)>> \o Pairs(Tail(rs))

\* The awaited coroutine object is gone once main has its result.
Drop(ts, id) == [j \in DOMAIN ts \ {id} |-> ts[j]]

NoRun == [ran |-> FALSE, file |-> NoFile]

\* The state in which main() starts.
Start ==
  /\ pc = "load"
  /\ domains = << >>
  /\ tasks = << >>
  /\ doneq = << >>
  /\ results = << >>
  /\ file = NoFile
  /\ to_retry = << >>
  /\ final_results = << >>
  /\ mi = 0
  /\ pending = 0
  /\ deepCalls = [i \in 1..Len(lines) |-> 0]

Init ==
  /\ prog \in Progs
  /\ net = "flaky"
  /\ prev = NoRun
  /\ lines \in UNION {[1..n -> LineKinds] : n \in 1..MaxLines}
  /\ Start

\* A network that answers every URL the same way each time.
InitSteady ==
  /\ prog \in Progs
  /\ net \in SteadyNets
  /\ prev = NoRun
  /\ lines \in UNION {[1..n -> LineKinds] : n \in 1..MaxLines}
  /\ Start

\* main up to the first await: read the lines, write the header, create
\* the Pass 1 coroutines.
Load ==
  /\ pc = "load"
  /\ IF LoadRaises
     THEN pc' = "raised" /\ UNCHANGED <<domains, tasks, doneq, file, pending>>
     ELSE LET ds == LoadFrom(prog, 1, 0) IN
          /\ domains' = ds
          /\ IF ds = << >>
             THEN pc' = "returned" /\ UNCHANGED <<tasks, doneq, file, pending>>
             ELSE LET ts == Spawn(prog, 1, ds, FALSE) IN
                  /\ pc' = "pass1"
                  /\ file' = [header |-> TRUE, rows |-> << >>]
                  /\ tasks' = ts
                  /\ pending' = Len(ds)
                  /\ doneq' = BornDone(ts, 1, 1)
  /\ UNCHANGED <<prog, net, prev, lines, results, to_retry, final_results, mi, deepCalls>>

\* The connector grants one waiting coroutine its connection and the GET
\* goes out.
Connect(id) ==
  /\ tasks[id].fl = "queued"
  /\ Room(prog, tasks, id, Target(tasks[id]))
  /\ tasks' = [tasks EXCEPT ![id].fl = "get"]
  /\ UNCHANGED <<prog, net, prev, lines, pc, domains, doneq, results, file, to_retry,
                 final_results, mi, pending, deepCalls>>

\* One coroutine resumes from the GET of its base URL and runs on to its
\* first page fetch, or the exception of the page discovery ends it.
Discover(id) ==
  /\ tasks[id].st = "discover"
  /\ tasks[id].fl = "get"
  /\ \/ \E found_pages \in DiscoverOutcomes(prog, net, tasks[id].base_url) :
          LET t == DiscoverStep(prog, tasks[id], found_pages) IN
            /\ tasks' = [tasks EXCEPT ![id] = Suspend(prog, t, Room(prog, tasks, id, Target(t)))]
            /\ doneq' = doneq
     \/ /\ DiscoverRaises(prog, net, tasks[id].base_url)
        /\ tasks' = [tasks EXCEPT ![id] = RaiseStep(tasks[id])]
        /\ doneq' = Append(doneq, id)
  /\ UNCHANGED <<prog, net, prev, lines, pc, domains, results, file, to_retry,
                 final_results, mi, pending, deepCalls>>

\* One coroutine resumes from the Tier 1 GET of a candidate page: it goes
\* on with the body, or src/scraper.py opens a browser on the page.
Fetch(id) ==
  /\ tasks[id].st = "fetch"
  /\ tasks[id].fl = "get"
  /\ \E o \in GetOutcomes(net, Target(tasks[id])) :
       IF Fallback(prog, o)
       THEN tasks' = [tasks EXCEPT ![id].fl = "browser", ![id].t1 = o.t1]
       ELSE LET t == FetchStep(prog, tasks[id], o) IN
              tasks' = [tasks EXCEPT ![id] = Suspend(prog, t, Room(prog, tasks, id, Target(t)))]
  /\ UNCHANGED <<prog, net, prev, lines, pc, domains, doneq, results, file, to_retry,
                 final_results, mi, pending, deepCalls>>

\* One coroutine resumes from fetch_emails_playwright.
Browse(id) ==
  /\ tasks[id].st = "fetch"
  /\ tasks[id].fl = "browser"
  /\ \E o \in Tier2Outcomes(net, Target(tasks[id]), tasks[id].t1) :
       LET t == FetchStep(prog, tasks[id], o) IN
         tasks' = [tasks EXCEPT ![id] = Suspend(prog, t, Room(prog, tasks, id, Target(t)))]
  /\ UNCHANGED <<prog, net, prev, lines, pc, domains, doneq, results, file, to_retry,
                 final_results, mi, pending, deepCalls>>

\* The coroutine appends its row to the output file itself.
Return_Writes(id) ==
  /\ tasks[id].st = "validate"
  /\ \E res \in TaskResults(prog, tasks[id]) :
       /\ tasks' = [tasks EXCEPT ![id] = ReturnStep(tasks[id], res)]
       /\ file' = [file EXCEPT !.rows = Append(@, Row(res))]
  /\ doneq' = IF id[1] \in {1, 2} THEN Append(doneq, id) ELSE doneq
  /\ UNCHANGED <<prog, net, prev, lines, pc, domains, results, to_retry,
                 final_results, mi, pending, deepCalls>>

\* One coroutine validates and returns; as_completed queues it.
Return(id) ==
  /\ tasks[id].st = "validate"
  /\ \E res \in TaskResults(prog, tasks[id]) :
       tasks' = [tasks EXCEPT ![id] = ReturnStep(tasks[id], res)]
  /\ doneq' = IF id[1] \in {1, 2} THEN Append(doneq, id) ELSE doneq
  /\ UNCHANGED <<prog, net, prev, lines, pc, domains, results, file, to_retry,
                 final_results, mi, pending, deepCalls>>

\* Pass 1 loop body: take the next completed result, append its row. The
\* await of a coroutine that raised raises in main: the run ends there and
\* asyncio.run cancels the coroutines still pending.
Collect1 ==
  /\ pc = "pass1"
  /\ doneq # << >>
  /\ IF tasks[Head(doneq)].st = "raised"
     THEN /\ pc' = "aborted"
          /\ tasks' = << >>
          /\ doneq' = << >>
          /\ UNCHANGED <<results, file, pending>>
     ELSE /\ LET result == tasks[Head(doneq)].result IN
               /\ results' = Append(results, result)
               /\ file' = [file EXCEPT !.rows = Append(@, Row(result))]
          /\ doneq' = Tail(doneq)
          /\ tasks' = Drop(tasks, Head(doneq))
          /\ pending' = pending - 1
          /\ pc' = pc
  /\ UNCHANGED <<prog, net, prev, lines, domains, to_retry, final_results, mi, deepCalls>>

Pass1Over == pc = "pass1" /\ pending = 0

\* src/scraper.py after the Pass 1 loop: select the 'Not found' results
\* and create their deep coroutines.
StartPass2 ==
  /\ prog = "tiered"
  /\ Pass1Over
  /\ LET tr == NotFoundOf(results)
         ts == Spawn(prog, 2, Pairs(tr), TRUE) IN
       /\ to_retry' = tr
       /\ IF tr # << >>
          THEN /\ pc' = "pass2"
               /\ tasks' = ts
               /\ pending' = Len(tr)
               /\ doneq' = BornDone(ts, 2, 1)
               /\ deepCalls' = [i \in DOMAIN deepCalls |->
                                  deepCalls[i] + Cardinality({k \in 1..Len(tr) : tr[k].line_number = i})]
               /\ UNCHANGED <<final_results, mi>>
          ELSE /\ pc' = "merge"
               /\ final_results' = DictFrom(results)
               /\ mi' = 1
               /\ UNCHANGED <<tasks, doneq, pending, deepCalls>>
  /\ UNCHANGED <<prog, net, prev, lines, domains, results, file>>

\* Pass 2 loop body: the awaited new_result is dropped.
Collect2 ==
  /\ pc = "pass2"
  /\ doneq # << >>
  /\ doneq' = Tail(doneq)
  /\ tasks' = Drop(tasks, Head(doneq))
  /\ pending' = pending - 1
  /\ UNCHANGED <<prog, net, prev, lines, pc, domains, results, file, to_retry,
                 final_results, mi, deepCalls>>

Pass2Over == pc = "pass2" /\ pending = 0

\* The dict of the Pass 1 results, then the merge loop starts.
StartMerge ==
  /\ Pass2Over
  /\ pc' = "merge"
  /\ final_results' = DictFrom(results)
  /\ mi' = 1
  /\ UNCHANGED <<prog, net, prev, lines, domains, tasks, doneq, results, file, to_retry,
                 pending, deepCalls>>

\* Merge loop: call check_domain(deep=True) for to_retry[mi] and await it.
MergeCall ==
  /\ pc = "merge"
  /\ mi <= Len(to_retry)
  /\ <<3, mi>> \notin DOMAIN tasks
  /\ LET r == to_retry[mi] IN
       /\ tasks' = (<<3, mi>> :> check_domain(prog, r.domain, r.line_number, TRUE)) @@ tasks
       /\ deepCalls' = [deepCalls EXCEPT ![r.line_number] = @ + 1]
  /\ UNCHANGED <<prog, net, prev, lines, pc, domains, doneq, results, file, to_retry,
                 final_results, mi, pending>>

\* Merge loop: the awaited deep_result replaces the stored one if it has emails.
MergeReturn ==
  /\ pc = "merge"
  /\ mi <= Len(to_retry)
  /\ <<3, mi>> \in DOMAIN tasks
  /\ tasks[<<3, mi>>].st = "done"
  /\ final_results' = MergeResult(final_results, tasks[<<3, mi>>].result)
  /\ mi' = mi + 1
  /\ tasks' = Drop(tasks, <<3, mi>>)
  /\ UNCHANGED <<prog, net, prev, lines, pc, domains, doneq, results, file, to_retry,
                 pending, deepCalls>>

\* src/scraper.py: sort the merged results and rewrite the file.
FinalWrite ==
  /\ prog = "tiered"
  /\ pc = "merge"
  /\ mi > Len(to_retry)
  /\ file' = [header |-> TRUE, rows |-> MapRows(SortByLine(final_results))]
  /\ pc' = "done"
  /\ UNCHANGED <<prog, net, prev, lines, domains, tasks, doneq, results, to_retry,
                 final_results, mi, pending, deepCalls>>

\* workflow program: sort results in place and rewrite the file.
FastFinalWrite ==
  /\ prog = "fast"
  /\ Pass1Over
  /\ results' = SortByLine(results)
  /\ file' = [header |-> TRUE, rows |-> MapRows(SortByLine(results))]
  /\ pc' = "done"
  /\ UNCHANGED <<prog, net, prev, lines, domains, tasks, doneq, to_retry, final_results, mi,
                 pending, deepCalls>>

Next ==
  \/ Load
  \/ \E id \in DOMAIN tasks : Connect(id)
  \/ \E id \in DOMAIN tasks : Discover(id)
  \/ \E id \in DOMAIN tasks : Fetch(id)
  \/ \E id \in DOMAIN tasks : Browse(id)
  \/ \E id \in DOMAIN tasks : Return(id)
  \/ Collect1
  \/ StartPass2
  \/ Collect2
  \/ StartMerge
  \/ MergeCall
  \/ MergeReturn
  \/ FinalWrite
  \/ FastFinalWrite

Spec == Init /\ [][Next]_vars

\* The program is run a second time on the same input file; what the
\* first run wrote is remembered.
Rerun ==
  /\ pc = "done"
  /\ ~prev.ran
  /\ prev' = [ran |-> TRUE, file |-> file]
  /\ pc' = "load"
  /\ domains' = << >>
  /\ tasks' = << >>
  /\ doneq' = << >>
  /\ results' = << >>
  /\ file' = file
  /\ to_retry' = << >>
  /\ final_results' = << >>
  /\ mi' = 0
  /\ pending' = 0
  /\ deepCalls' = [i \in 1..Len(lines) |-> 0]
  /\ UNCHANGED <<prog, net, lines>>

NextTwice == Next \/ Rerun

SpecTwice == InitSteady /\ [][NextTwice]_vars

\* ----------------------------------------------------------------- claims
Rows == file.rows
TaskIds == DOMAIN tasks
Returned(id) == tasks[id].st = "done"
IsFound(r) == r.emails # NOT_FOUND

\* The positions of the non-blank lines of the input, by the input format
\* (one domain per non-empty line).
NonBlankPos == {i \in 1..Len(lines) : NonBlank(lines[i])}

\* C1: after main() finishes, the rows below the header are in strictly
\* increasing order of the input index of the results they were written
\* from, whatever order the check_domain tasks completed in.
C1_RowsInInputOrder ==
  pc = "done" =>
    \A i \in 1..(Len(Rows) - 1) : Rows[i].idx < Rows[i + 1].idx

\* C1 witness: a finished tiered run whose second input line completed
\* Pass 1 before its first and that went through Pass 2.
C1_Witness ==
  /\ pc = "done"
  /\ prog = "tiered"
  /\ Len(results) = 2
  /\ results[1].line_number > results[2].line_number
  /\ to_retry # << >>

\* C2: at the final write there is exactly one row per non-blank input
\* line, carrying that line's hostname: none missing, none twice, no
\* interim row left over.
C2_OneRowPerLine ==
  pc = "done" =>
    /\ Len(Rows) = Cardinality(NonBlankPos)
    /\ Len(domains) = Cardinality(NonBlankPos)
    /\ \A k \in 1..Len(domains) :
         Cardinality({i \in 1..Len(Rows) :
                        Rows[i].idx = domains[k][1] /\ Rows[i].domain = domains[k][2]}) = 1
    /\ \A i, j \in 1..Len(Rows) : i # j => Rows[i].idx # Rows[j].idx

\* C2 witness: a finished tiered run over the same hostname on two lines,
\* one of whose stored results was replaced in the merge step.
C2_Witness ==
  /\ pc = "done"
  /\ prog = "tiered"
  /\ Len(lines) = 2
  /\ lines[1] = lines[2]
  /\ NonBlank(lines[1])
  /\ \E k \in 1..Len(results) : ~IsFound(results[k]) /\ IsFound(Rows[results[k].line_number])

\* C3: a task that fetched a page body holding a syntactically valid
\* address does not return 'Not found'.
C3_ValidPageGivesEmails ==
  \A id \in TaskIds :
    (Returned(id) /\ tasks[id].seen # NoUrl) => IsFound(tasks[id].result)

\* C4: every result of check_domain has emails = 'Not found' exactly when
\* target_website is empty.
C4_NotFoundIffNoTarget ==
  \A id \in TaskIds :
    Returned(id) => (~IsFound(tasks[id].result) <=> tasks[id].result.target_website = NoUrl)

\* C5: within one check_domain run no request goes out once a fetch has
\* produced a validated address, and the recorded target_website is the
\* page whose fetch produced it.
C5_ShortCircuit ==
  \A id \in TaskIds :
    /\ ~tasks[id].late
    /\ tasks[id].producer # NoUrl => tasks[id].st \in {"validate", "done"}
    /\ (Returned(id) /\ tasks[id].producer # NoUrl) =>
         tasks[id].result.target_website = tasks[id].producer

\* C5 witness: a task returned with addresses found on a discovered page
\* of a site that has more candidate pages.
C5_Witness ==
  \E id \in TaskIds :
    /\ Returned(id)
    /\ tasks[id].producer # NoUrl
    /\ tasks[id].producer.path = "/contact"
    /\ IsFound(tasks[id].result)

\* C6: in Pass 2 the deep check runs exactly once for each domain whose
\* Pass 1 result is 'Not found' (and not at all for the others).
C6_DeepCheckOnce ==
  (prog = "tiered" /\ pc = "done") =>
    \A k \in 1..Len(results) :
      deepCalls[results[k].line_number] = IF IsFound(results[k]) THEN 0 ELSE 1

\* C7: a domain whose Pass 1 result has emails is never processed again
\* (no deep check_domain call is made or running for its line), and its
\* row in the final output is its Pass 1 result.
C7_FoundNotReprocessed ==
  \A k \in 1..Len(results) :
    IsFound(results[k]) =>
      /\ deepCalls[results[k].line_number] = 0
      /\ \A id \in TaskIds :
           tasks[id].deep => tasks[id].line_number # results[k].line_number
      /\ pc = "done" => \E i \in 1..Len(Rows) : Rows[i] = Row(results[k])

\* C7 witness: a finished tiered run in which one domain was found in
\* Pass 1 and another went to the deep retry.
C7_Witness ==
  /\ pc = "done"
  /\ prog = "tiered"
  /\ to_retry # << >>
  /\ \E k \in 1..Len(results) : IsFound(results[k])

\* C8: a stored result changes only by being replaced, whole, by the deep
\* result of the same line when that has emails and the stored one has
\* none; otherwise it stays as it is.
C8_ReplacedOnlyByFound ==
  [][\A i \in 1..Len(final_results) :
       /\ i <= Len(final_results')
       /\ \/ final_results'[i] = final_results[i]
          \/ /\ <<3, mi>> \in TaskIds
             /\ final_results'[i] = tasks[<<3, mi>>].result
             /\ IsFound(final_results'[i])
             /\ ~IsFound(final_results[i])
             /\ final_results'[i].line_number = final_results[i].line_number
             /\ final_results'[i].domain = final_results[i].domain]_vars

\* C8 witness: in the merge step, one stored 'Not found' result has been
\* replaced by a deep result with emails and another has been left alone.
C8_Witness ==
  /\ pc = "merge"
  /\ mi > Len(to_retry)
  /\ Len(to_retry) = 2
  /\ \E i, j \in 1..Len(final_results) :
       /\ IsFound(final_results[i]) /\ ~IsFound(results[i])
       /\ ~IsFound(final_results[j]) /\ final_results[j] = results[j]

\* C9: a second run on the same input, every URL answering as in the
\* first run, writes the same output file.
C9_SameOutputTwice ==
  (pc = "done" /\ prev.ran) => file = prev.file

\* C10: the emails field of a found result lists its addresses in
\* strictly increasing order (sorted, none repeated).
C10_EmailsSorted ==
  \A id \in TaskIds :
    (Returned(id) /\ IsFound(tasks[id].result)) =>
      LET l == SplitAll(tasks[id].result.emails, ", ") IN
        \A i \in 1..(Len(l) - 1) : StrLess(l[i], l[i + 1])

\* C11: no call of check_domain ends by an exception and no exception of a
\* domain's processing ends main: every task returns a result of its own
\* and the run goes on to the final write.
C11_FailuresContained ==
  /\ \A id \in TaskIds : tasks[id].st # "raised"
  /\ pc # "aborted"

\* The tasks with a fetch in flight: a Tier 1 GET on a connection or a
\* Tier 2 browser open.
Flying == {id \in TaskIds : InFlight(tasks[id])}

\* C12: at every moment the number of fetches in flight over all domain
\* tasks, Tier 1 requests and Tier 2 browsers counted together, is at
\* most the global concurrency cap.
C12_GlobalCap == Cardinality(Flying) <= CONCURRENCY_LIMIT

\* C13: at every moment the number of requests in flight to one host is
\* at most the per-host cap, also with one hostname on several lines.
C13_PerHostCap ==
  \A id \in Flying :
    Cardinality({j \in Flying : Target(tasks[j]).host = Target(tasks[id]).host})
      <= LIMIT_PER_HOST

\* C14: a domain processed in deep mode has no Tier 1 GET in flight, for
\* its page discovery or for a page.
C14_DeepNoTier1 ==
  \A id \in TaskIds : tasks[id].deep => tasks[id].fl # "get"

\* C15: the candidate page list check_domain iterates for a protocol
\* contains that protocol's base URL and has no more entries than the
\* program's maximum.
C15_PagesIncludeBase ==
  \A id \in TaskIds :
    tasks[id].st = "fetch" =>
      /\ \E i \in 1..Len(tasks[id].pages) : tasks[id].pages[i] = tasks[id].base_url
      /\ Len(tasks[id].pages) <= IF prog = "tiered" THEN TIERED_PAGE_CAP ELSE FAST_PAGE_CAP

\* C16: in normal mode a browser opens on a page only in the step in which
\* the Tier 1 GET of that page, in the same attempt, ends in a soft
\* failure; a GET that ends with a 200 opens none.
C16_Tier2OnlyAfterTier1Failure ==
  [][\A id \in TaskIds \cap DOMAIN tasks' :
       (~tasks'[id].deep /\ tasks'[id].fl = "browser" /\ tasks'[id] # tasks[id]) =>
         /\ tasks[id].st = "fetch"
         /\ tasks[id].fl = "get"
         /\ tasks'[id].t1 = "fail"
         /\ tasks'[id].pi = tasks[id].pi
         /\ tasks'[id].pages = tasks[id].pages
         /\ tasks'[id].r = tasks[id].r
         /\ tasks'[id].k = tasks[id].k
         /\ tasks'[id].calls = tasks[id].calls]_vars

\* C16 witness: a normal-mode task has a browser open on its second
\* candidate page after that page's GET failed, the first page having
\* been fetched without a browser or with one.
C16_Witness ==
  \E id \in TaskIds :
    /\ ~tasks[id].deep
    /\ tasks[id].fl = "browser"
    /\ tasks[id].t1 = "fail"
    /\ tasks[id].k = 2

\* A request of the call is pending or in flight.
Requesting(t) == t.st \in {"discover", "fetch"}

\* Every candidate page of the protocol attempt has had all its fetch
\* attempts and no address is held.
Exhausted(t) ==
  /\ t.st = "fetch"
  /\ t.emails = {}
  /\ \A k \in 1..Len(t.pages) : t.calls[k] = MAX_RETRIES + 1

\* C17 as stated: https is tried before http, a request to an http:// URL
\* of the domain goes out only after every candidate page of the https
\* attempt has had all MAX_RETRIES+1 fetch attempts without an address,
\* and no candidate page has more than MAX_RETRIES+1 fetch attempts per
\* protocol.
C17_HttpRequestAfterHttps ==
  [][\A id \in DOMAIN tasks' :
       /\ (Requesting(tasks'[id]) /\ tasks'[id].pi = 1) =>
            tasks'[id].base_url = BaseUrl("https", tasks'[id].domain)
       /\ \A k \in 1..Len(tasks'[id].calls) : tasks'[id].calls[k] <= MAX_RETRIES + 1
       /\ (Requesting(tasks'[id]) /\ Target(tasks'[id]).proto = "http") =>
            /\ id \in TaskIds
            /\ tasks'[id].emails = {}
            /\ tasks[id].pi = 2 \/ Exhausted(tasks[id])]_vars

\* C17 amended: the https attempt comes before the http attempt, the http
\* attempt (discovery and fetches for http://domain) begins only after
\* every candidate page of the https attempt has had all MAX_RETRIES+1
\* fetch attempts without an address, and no candidate page has more than
\* MAX_RETRIES+1 fetch attempts per protocol attempt.
C17_HttpAttemptAfterHttps ==
  [][\A id \in DOMAIN tasks' :
       /\ (Requesting(tasks'[id]) /\ tasks'[id].pi = 1) =>
            tasks'[id].base_url = BaseUrl("https", tasks'[id].domain)
       /\ \A k \in 1..Len(tasks'[id].calls) : tasks'[id].calls[k] <= MAX_RETRIES + 1
       /\ (Requesting(tasks'[id]) /\ tasks'[id].pi = 2) =>
            /\ id \in TaskIds
            /\ tasks'[id].base_url = BaseUrl("http", tasks'[id].domain)
            /\ tasks'[id].emails = {}
            /\ tasks[id].pi = 2 \/ Exhausted(tasks[id])]_vars

\* C17 witness: a task is in the last fetch attempt of the second
\* candidate page of its http attempt.
C17_Witness ==
  \E id \in TaskIds :
    /\ tasks[id].pi = 2
    /\ tasks[id].st = "fetch"
    /\ Len(tasks[id].pages) = 2
    /\ tasks[id].calls = <<MAX_RETRIES + 1, MAX_RETRIES + 1>>

\* The event loop runs every coroutine that can go on, and every request
\* in flight returns.
SpecFair == Init /\ [][Next]_vars /\ WF_vars(Next)

\* C18: under fair scheduling, with every fetch returning, a run over an
\* input with at least one non-blank line eventually performs the final
\* sorted write (every task has returned and both passes are over by then).
C18_EventuallyFinalWrite == (NonBlankPos # {}) => <>(pc = "done")

\* C19: every step that changes the output file is a step of main in which
\* no domain task moves, and it leaves the file whole: the header alone,
\* the rows so far with the row of the awaited result appended, or the
\* header with the complete final table.
C19_SingleWriter ==
  [][file' # file =>
       /\ \A id \in TaskIds \cap DOMAIN tasks' : tasks'[id] = tasks[id]
       /\ file'.header
       /\ \/ pc = "load" /\ file'.rows = << >>
          \/ /\ pc = "pass1" /\ pc' = "pass1"
             /\ Len(results') = Len(results) + 1
             /\ file'.rows = Append(file.rows, Row(results'[Len(results')]))
          \/ pc' = "done" /\ Len(file'.rows) = Len(domains)]_vars

\* C19 witness: an interim row is in the file while another domain task
\* has a request in flight.
C19_Witness ==
  /\ pc = "pass1"
  /\ Len(Rows) = 1
  /\ Flying # {}

\* C20: loading a readable input file never fails, whatever its lines
\* hold: once main is past the load, every non-blank line has either
\* yielded a domain task or been skipped, and no exception has ended it.
C20_StartupNeverFails ==
  /\ pc # "raised"
  /\ pc # "load" => Len(domains) <= Cardinality(NonBlankPos)

====
